---- MODULE Spec2Model ----
(***************************************************************************)
(* Model of koyeb-alive/workers.js: the account loader, the bounded-time   *)
(* fetch, the account verifier, the Telegram notifier and the orchestrator *)
(* main().  Strings are sequences of one-character strings (configuration  *)
(* text, emails) or sequences of message fragments (log/report text); the  *)
(* source's Chinese literals are rendered in ASCII.                        *)
(***************************************************************************)
EXTENDS Integers, Sequences, FiniteSets, TLC

VARIABLES pc, koyebAccounts, totalAccounts, index, results, successCount,
          timer, net, ret, tg, exitCode, calls,
          parseInput, parseOutput

\* parseInput and parseOutput hold the argument and the result of
\* validateAndLoadAccounts when it is examined on its own (SpecParse).
parseVars == <<parseInput, parseOutput>>

vars == <<pc, koyebAccounts, totalAccounts, index, results, successCount,
          timer, net, ret, tg, exitCode, calls, parseVars>>

(* ------------------------------ bounds --------------------------------- *)

\* Largest number of lines in the KOYEB_LOGIN text the model draws.
MaxLines == 2

\* Largest number of characters in a KOYEB_LOGIN text given to the loader alone.
MaxTextLen == 7

(* ------------------------- program constants --------------------------- *)

REQUEST_TIMEOUT == 30000

\* A response delay shorter than the timeout, and one longer than it.
FastDelay == REQUEST_TIMEOUT \div 3

SlowDelay == REQUEST_TIMEOUT + FastDelay

DelayChoices == {FastDelay, SlowDelay}

(* --------------------------- string helpers ---------------------------- *)

\* Characters String.prototype.trim removes.
Whitespace == {" ", "\n", "\t"}

ToLowerChar(c) == IF c = "A" THEN "a" ELSE IF c = "B" THEN "b" ELSE c

toLowerCase(s) == [i \in 1..Len(s) |-> ToLowerChar(s[i])]

RECURSIVE trimStart(_)
trimStart(s) == IF s # <<>> /\ Head(s) \in Whitespace THEN trimStart(Tail(s)) ELSE s

RECURSIVE trimEnd(_)
trimEnd(s) ==
    IF s # <<>> /\ s[Len(s)] \in Whitespace THEN trimEnd(SubSeq(s, 1, Len(s) - 1)) ELSE s

trim(s) == trimEnd(trimStart(s))

\* indexOf, 1-based; 0 when the character does not occur (JavaScript: -1).
RECURSIVE indexFrom(_, _, _)
indexFrom(s, c, i) ==
    IF i > Len(s) THEN 0 ELSE IF s[i] = c THEN i ELSE indexFrom(s, c, i + 1)

indexOf(s, c) == indexFrom(s, c, 1)

includes(s, c) == indexOf(s, c) # 0

\* String.prototype.split on a one-character separator.
RECURSIVE split(_, _)
split(s, sep) ==
    LET k == indexOf(s, sep)
    IN  IF k = 0 THEN <<s>>
        ELSE <<SubSeq(s, 1, k - 1)>> \o split(SubSeq(s, k + 1, Len(s)), sep)

\* Array.prototype.join of a list of fragments.
RECURSIVE join(_, _)
join(list, sep) ==
    IF list = <<>> THEN <<>>
    ELSE IF Len(list) = 1 THEN list[1]
    ELSE list[1] \o sep \o join(Tail(list), sep)

(* --------------------------- account loading --------------------------- *)

ERR_NOT_CONFIGURED == <<"KOYEB_LOGIN environment variable must be configured">>

ERR_NO_VALID_ACCOUNT == <<"KOYEB_LOGIN environment variable holds no valid account">>

\* Mutant: a line with a colon is accepted whatever its two parts are.
parseLine_NoFieldCheck(rawLine) ==
    LET line == trim(rawLine)
        colonIndex == indexOf(line, ":")
        email == trim(SubSeq(line, 1, colonIndex - 1))
        pat == trim(SubSeq(line, colonIndex + 1, Len(line)))
    IN  IF line = <<>> \/ ~includes(line, ":") THEN <<>>
        ELSE <<[email |-> email, pat |-> pat]>>

\* Mutant: the line is split on every colon and the first two parts are kept.
parseLine_SplitAll(rawLine) ==
    LET line == trim(rawLine)
        parts == split(line, ":")
        email == trim(parts[1])
        pat == trim(parts[2])
    IN  IF line = <<>> \/ ~includes(line, ":") THEN <<>>
        ELSE IF email # <<>> /\ pat # <<>> THEN <<[email |-> email, pat |-> pat]>>
        ELSE <<>>

\* One line of the loop body of validateAndLoadAccounts: the accounts it pushes.
parseLine(rawLine) ==
    LET line == trim(rawLine)
        colonIndex == indexOf(line, ":")
        email == trim(SubSeq(line, 1, colonIndex - 1))
        pat == trim(SubSeq(line, colonIndex + 1, Len(line)))
    IN  IF line = <<>> \/ ~includes(line, ":") THEN <<>>
        ELSE IF email # <<>> /\ pat # <<>> THEN <<[email |-> email, pat |-> pat]>>
        ELSE <<>>

RECURSIVE parseLines(_)
parseLines(lines) ==
    IF lines = <<>> THEN <<>> ELSE parseLine(Head(lines)) \o parseLines(Tail(lines))

\* Mutant: no check that at least one account was loaded.
validateAndLoadAccounts_NoEmptyCheck(env) ==
    IF env = <<>> \/ env[1] = <<>>
    THEN [threw |-> TRUE, error |-> ERR_NOT_CONFIGURED, accounts |-> <<>>]
    ELSE [threw |-> FALSE, error |-> <<>>,
          accounts |-> parseLines(split(trim(env[1]), "\n"))]

\* env is <<>> when KOYEB_LOGIN is unset and <<text>> when it is set.
validateAndLoadAccounts(env) ==
    IF env = <<>> \/ env[1] = <<>>
    THEN [threw |-> TRUE, error |-> ERR_NOT_CONFIGURED, accounts |-> <<>>]
    ELSE LET accounts == parseLines(split(trim(env[1]), "\n"))
         IN  IF Len(accounts) = 0
             THEN [threw |-> TRUE, error |-> ERR_NO_VALID_ACCOUNT, accounts |-> <<>>]
             ELSE [threw |-> FALSE, error |-> <<>>, accounts |-> accounts]

(* ----------------------- remote behaviour (inputs) ---------------------- *)

\* An optional JSON field: <<>> when absent, <<v>> when present.
Opt(S) == {<<>>} \cup {<<v>> : v \in S}

\* JavaScript's `x || d` for an optional field whose present values are truthy
\* or already equal to the default.
OrDefault(opt, d) == IF opt = <<>> THEN d ELSE opt[1]

NoBody == [kind |-> "none", error |-> <<>>, user |-> <<>>]

NoNet == [hdrDelay |-> 0, kind |-> "none", status |-> 0,
          bodyDelay |-> 0, bodyStalls |-> FALSE, body |-> NoBody]

\* HTTP statuses the remote endpoints answer with.
Statuses == {200, 401, 403, 500}

\* Emails, flag lists and validation marks a profile body may carry.
ReturnedEmails == {<<"a">>, <<"b">>}

FlagLists == {<<>>, <<"ACTIVE">>, <<"NEW">>}

UserInfos == [email : Opt(ReturnedEmails), flags : Opt(FlagLists),
              email_validated : Opt(BOOLEAN)]

\* Bodies of a 2xx profile response: not JSON, JSON null, or a JSON object
\* with an optional nested user object.
ProfileBodies ==
    {[kind |-> "nonjson", error |-> <<>>, user |-> <<>>],
     [kind |-> "null", error |-> <<>>, user |-> <<>>]}
    \cup {[kind |-> "object", error |-> <<>>, user |-> u] : u \in Opt(UserInfos)}

\* Bodies of an error response: not JSON, JSON null, or a JSON object with an
\* optional "error" member.
ErrorBodies ==
    {[kind |-> "nonjson", error |-> <<>>, user |-> <<>>],
     [kind |-> "null", error |-> <<>>, user |-> <<>>]}
    \cup {[kind |-> "object", error |-> e, user |-> <<>>] : e \in Opt({"quota exceeded"})}

\* What the remote side does with one request, before the body: it answers
\* with a status after a delay, or the connection fails after a delay.
Remotes ==
    [hdrDelay : DelayChoices, kind : {"response"}, status : Statuses]
    \cup [hdrDelay : {FastDelay}, kind : {"neterror"}, status : {0}]

\* How the body of an answered request is delivered.
BodyDeliveries == [bodyDelay : DelayChoices, bodyStalls : BOOLEAN]

(* ----------------------------- fetchWithTimeout ------------------------ *)

\* The timer set by fetchWithTimeout aborts a fetch still pending at `timeout`.
AbortsPending(armed, elapsed, timeout) == armed /\ elapsed >= timeout

\* Settlement of `await fetch(...)` inside fetchWithTimeout.
fetchWithTimeout(remote, timeout) ==
    IF AbortsPending(TRUE, remote.hdrDelay, timeout)
    THEN [kind |-> "AbortError", status |-> 0]
    ELSE [kind |-> remote.kind, status |-> remote.status]

\* State of the abort timer once fetchWithTimeout has settled (finally block).
TimerAfterFetch == "cleared"

\* Response.ok
ResponseOk(status) == status >= 200 /\ status <= 299

statusText(status) == IF status = 500 THEN "Internal Server Error" ELSE ToString(status)

(* ------------------------ verifyKoyebAccountStatus --------------------- *)

MSG_EMPTY == <<"email or personal access token (PAT) is empty">>

MSG_PAT_INVALID == <<"verification failed: PAT invalid or expired.">>

MSG_ACTIVE == <<"active and email validated">>

MSG_EMAIL_NOT_VALIDATED == <<"reason: email not validated">>

MSG_TIMEOUT == <<"reason: request timeout">>

MSG_API_ERROR(status, errorMessage) ==
    <<"reason: API error (status ", ToString(status), "): ", errorMessage>>

MSG_MISMATCH(returnedEmail) ==
    <<"verification failed: API returned email(">> \o returnedEmail
        \o <<") does not match the provided email.">>

MSG_INACTIVE(flags) ==
    <<"reason: inactive (Flags: ">> \o join([i \in 1..Len(flags) |-> <<flags[i]>>], <<", ">>)
        \o <<")">>

MSG_UNKNOWN == <<"reason: unknown account: ", "<userInfo>">>

MSG_NETWORK(errorMessage) == <<"reason: network request exception: ", errorMessage>>

Returned(success, message) == [kind |-> "return", success |-> success, message |-> message]

Thrown(message) == [kind |-> "throw", success |-> FALSE, message |-> message]

NoRet == [kind |-> "none", success |-> FALSE, message |-> <<>>]

\* Mutant: only the abort is handled; any other error is thrown again.
VerifyCatch_Rethrows(errorName, errorMessage) ==
    IF errorName = "AbortError" THEN Returned(FALSE, MSG_TIMEOUT)
    ELSE Thrown(<<errorMessage>>)

\* The catch block of verifyKoyebAccountStatus.
VerifyCatch(errorName, errorMessage) ==
    IF errorName = "AbortError" THEN Returned(FALSE, MSG_TIMEOUT)
    ELSE Returned(FALSE, MSG_NETWORK(errorMessage))

\* Mutant: the generic non-2xx check runs before the 401/403 check.
StatusBranch_GenericFirst(status) ==
    IF ~ResponseOk(status) THEN "error"
    ELSE IF status = 401 \/ status = 403 THEN "auth"
    ELSE "ok"

\* Which branch the status checks take: "auth", "error" or "ok".
StatusBranch(status) ==
    IF status = 401 \/ status = 403 THEN "auth"
    ELSE IF ~ResponseOk(status) THEN "error"
    ELSE "ok"

\* response.text() on a response whose body response.json() has already read:
\* the body is used, and the read is rejected.
TextAfterJson(body) == [threw |-> TRUE, error |-> "Body is unusable: Body has already been read"]

\* The non-2xx branch once the body has been delivered.
ErrorBodyOutcome(status, body) ==
    IF body.kind = "object"
    THEN Returned(FALSE, MSG_API_ERROR(status, OrDefault(body.error, statusText(status))))
    ELSE LET text == TextAfterJson(body)
         IN  IF text.threw THEN VerifyCatch("TypeError", text.error)
             ELSE Returned(FALSE, MSG_API_ERROR(status, "<raw text>"))

\* Mutant: the status checks run before the identity check.
ClassifyProfile_StatusFirst(email, userInfo) ==
    LET returnedEmail == OrDefault(userInfo.email, <<>>)
        flags == OrDefault(userInfo.flags, <<>>)
        emailValidated == OrDefault(userInfo.email_validated, FALSE)
        isActive == \E i \in 1..Len(flags) : flags[i] = "ACTIVE"
    IN  IF ~isActive THEN Returned(FALSE, MSG_INACTIVE(flags))
        ELSE IF ~emailValidated THEN Returned(FALSE, MSG_EMAIL_NOT_VALIDATED)
        ELSE IF toLowerCase(returnedEmail) # toLowerCase(email)
        THEN Returned(FALSE, MSG_MISMATCH(returnedEmail))
        ELSE Returned(TRUE, MSG_ACTIVE)

\* The "strict validation logic" on the decoded user object.
ClassifyProfile(email, userInfo) ==
    LET returnedEmail == OrDefault(userInfo.email, <<>>)
        flags == OrDefault(userInfo.flags, <<>>)
        emailValidated == OrDefault(userInfo.email_validated, FALSE)
        isActive == \E i \in 1..Len(flags) : flags[i] = "ACTIVE"
    IN  IF toLowerCase(returnedEmail) # toLowerCase(email)
        THEN Returned(FALSE, MSG_MISMATCH(returnedEmail))
        ELSE IF isActive /\ emailValidated THEN Returned(TRUE, MSG_ACTIVE)
        ELSE IF ~isActive THEN Returned(FALSE, MSG_INACTIVE(flags))
        ELSE IF ~emailValidated THEN Returned(FALSE, MSG_EMAIL_NOT_VALIDATED)
        ELSE Returned(FALSE, MSG_UNKNOWN)

EmptyUserInfo == [email |-> <<>>, flags |-> <<>>, email_validated |-> <<>>]

\* The 2xx branch once the body has been delivered.
ProfileBodyOutcome(email, body) ==
    IF body.kind = "nonjson"
    THEN VerifyCatch("SyntaxError", "Unexpected token in JSON")
    ELSE IF body.kind = "null"
    THEN VerifyCatch("TypeError", "Cannot read properties of null (reading 'user')")
    ELSE ClassifyProfile(email, OrDefault(body.user, EmptyUserInfo))

(* ------------------------------- report -------------------------------- *)

MARK_OK == "status: [OK] "

MARK_FAIL == "status: [FAIL] verification failed\n  "

MARK_INCOMPLETE == "status: [FAIL] incomplete information\n"

\* The markdown code quotes around the email are written as brackets.
AccountHeader(email) == <<"account: [">> \o email \o <<"]\n">>

IncompleteLine == <<"account: no email provided\n", MARK_INCOMPLETE>>

\* Mutant: the two markers are exchanged.
OutcomeLine_SwappedMarkers(email, success, message) ==
    IF success THEN AccountHeader(email) \o <<MARK_FAIL>> \o message \o <<"\n">>
    ELSE AccountHeader(email) \o <<MARK_OK>> \o message \o <<"\n">>

\* The report line main pushes for a returned outcome.
OutcomeLine(email, success, message) ==
    IF success THEN AccountHeader(email) \o <<MARK_OK>> \o message \o <<"\n">>
    ELSE AccountHeader(email) \o <<MARK_FAIL>> \o message \o <<"\n">>

\* The report line main's per-account catch block pushes.
ExceptionLine(email, errorMessage) ==
    AccountHeader(email)
        \o <<MARK_FAIL, "unknown exception during execution - ">> \o errorMessage \o <<"\n">>

\* Mutant: the new line is put in front of the lines recorded so far.
push_Front(list, item) == <<item>> \o list

\* Array.prototype.push on the results array.
push(list, item) == Append(list, item)

\* Mutant: the report body is built by taking the lines out of the array.
afterJoin_Emptied(lines) == <<>>

\* The results array once results.join('') has read it: join leaves its
\* receiver as it was.
afterJoin(lines) == lines

\* getBeijingTime() as read once before the loop.
currentTime == "2026-01-01 08:00:00"

\* The text of the final report (summary, then results.join('')).
render(time, total, success, lines) ==
    <<"*Koyeb account status report*\n=====================\n", "date: ", time, "\n",
      "total: ", ToString(total), " accounts\n",
      "succeeded: ", ToString(success), " | failed: ", ToString(total - success), "\n",
      "---------------------------\n">> \o join(lines, <<>>)

INIT_FAILED == "program initialization failed: "

(* ------------------------------ inputs --------------------------------- *)

\* Lines the KOYEB_LOGIN text is made of: two valid ones, one without a
\* colon, one with an empty email.
LineChoices ==
    {<<"a", ":", "t">>,
     <<" ", "A", " ", ":", " ", "t", ":", "u", " ">>,
     <<"b">>,
     <<":", "t">>}

\* Values of process.env.KOYEB_LOGIN: unset, or up to MaxLines lines.
LoginEnvs ==
    {<<>>} \cup
    {<<join(ls, <<"\n">>)>> : ls \in UNION {[1..n -> LineChoices] : n \in 0..MaxLines}}

NoTg == [caller |-> "none", text |-> <<>>, how |-> "none", ret |-> "none"]

NoCalls == [sleep |-> 0, sleepDone |-> 0, verify |-> 0, fetch |-> 0, settled |-> 0,
            notify |-> 0, tgFetch |-> 0]

(* ---------------------------- orchestrator ----------------------------- *)

RunInit ==
    /\ pc = "start"
    /\ koyebAccounts = <<>>
    /\ totalAccounts = 0
    /\ index = 0
    /\ results = <<>>
    /\ successCount = 0
    /\ timer = "idle"
    /\ net = NoNet
    /\ ret = NoRet
    /\ tg = NoTg
    /\ exitCode = <<>>
    /\ calls = NoCalls

Init ==
    /\ RunInit
    /\ parseInput = <<>>
    /\ parseOutput = <<>>

\* main's outer catch block up to its call of sendTgMessage.
EnterCatch(errorMessage) ==
    /\ pc' = "tg_call"
    /\ tg' = [caller |-> "initfail", text |-> <<INIT_FAILED>> \o errorMessage,
              how |-> "none", ret |-> "none"]

\* main from its start to the first loop test.
Load ==
    /\ UNCHANGED parseVars
    /\ pc = "start"
    /\ \E env \in LoginEnvs :
         LET loaded == validateAndLoadAccounts(env)
         IN  IF loaded.threw
             THEN /\ EnterCatch(loaded.error)
                  /\ UNCHANGED <<koyebAccounts, totalAccounts>>
             ELSE /\ koyebAccounts' = loaded.accounts
                  /\ totalAccounts' = Len(loaded.accounts)
                  /\ pc' = "loop"
                  /\ tg' = tg
    /\ UNCHANGED <<index, results, successCount, timer, net, ret, exitCode, calls>>

\* Mutant: the wait is only between accounts, not before the first.
NeedsThrottle_SkipFirst(i) == i > 0

\* Whether main waits before verifying the account at `i` (0-based).
NeedsThrottle(i) == TRUE

\* verifyKoyebAccountStatus from its entry to its first await.
VerifyStart(email, pat, newCalls) ==
    IF email = <<>> \/ pat = <<>>
    THEN /\ ret' = Returned(FALSE, MSG_EMPTY)
         /\ pc' = "v_ret"
         /\ timer' = timer
         /\ calls' = [newCalls EXCEPT !.verify = @ + 1]
    ELSE /\ ret' = ret
         /\ pc' = "v_fetch"
         /\ timer' = "armed"
         /\ calls' = [newCalls EXCEPT !.verify = @ + 1, !.fetch = @ + 1]

\* The loop test and the loop body up to its first await; after the last
\* account, the report up to the call of sendTgMessage.
LoopHead ==
    /\ UNCHANGED parseVars
    /\ pc = "loop"
    /\ IF index < Len(koyebAccounts)
       THEN LET account == koyebAccounts[index + 1]
                email == trim(account.email)
                pat == account.pat
            IN  IF email = <<>> \/ pat = <<>>
                THEN /\ results' = push(results, IncompleteLine)
                     /\ index' = index + 1
                     /\ UNCHANGED <<pc, timer, ret, calls, tg>>
                ELSE IF NeedsThrottle(index)
                THEN /\ pc' = "sleeping"
                     /\ calls' = [calls EXCEPT !.sleep = @ + 1]
                     /\ UNCHANGED <<results, index, timer, ret, tg>>
                ELSE /\ VerifyStart(email, pat, calls)
                     /\ UNCHANGED <<results, index, tg>>
       ELSE /\ pc' = "tg_call"
            /\ tg' = [caller |-> "report",
                      text |-> render(currentTime, totalAccounts, successCount, results),
                      how |-> "none", ret |-> "none"]
            /\ results' = afterJoin(results)
            /\ UNCHANGED <<index, timer, ret, calls>>
    /\ UNCHANGED <<koyebAccounts, totalAccounts, successCount, net, exitCode>>

\* The throttle timer fires; main calls the verifier.
SleepDone ==
    /\ UNCHANGED parseVars
    /\ pc = "sleeping"
    /\ LET account == koyebAccounts[index + 1]
       IN  VerifyStart(trim(account.email), account.pat,
                       [calls EXCEPT !.sleepDone = @ + 1])
    /\ UNCHANGED <<koyebAccounts, totalAccounts, index, results, successCount, net, tg,
                   exitCode>>

\* The verifier's fetchWithTimeout settles: response headers, a network
\* failure, or the abort raised by the timer; then the status checks.
VerifyFetchSettles ==
    /\ UNCHANGED parseVars
    /\ pc = "v_fetch"
    /\ \E remote \in Remotes, delivery \in BodyDeliveries :
         LET r == fetchWithTimeout(remote, REQUEST_TIMEOUT)
             branch == StatusBranch(r.status)
             done == [calls EXCEPT !.settled = @ + 1]
         IN  /\ timer' = TimerAfterFetch
             /\ IF r.kind = "response"
                THEN /\ net' = [hdrDelay |-> remote.hdrDelay, kind |-> r.kind,
                                status |-> r.status, bodyDelay |-> delivery.bodyDelay,
                                bodyStalls |-> delivery.bodyStalls, body |-> NoBody]
                     /\ IF branch = "auth"
                        THEN /\ ret' = Returned(FALSE, MSG_PAT_INVALID)
                             /\ pc' = "v_ret"
                             /\ calls' = done
                        ELSE /\ ret' = ret
                             /\ pc' = IF branch = "error" THEN "v_errjson" ELSE "v_json"
                             /\ calls' = calls
                ELSE /\ delivery = [bodyDelay |-> FastDelay, bodyStalls |-> FALSE]
                     /\ net' = [NoNet EXCEPT !.hdrDelay = remote.hdrDelay, !.kind = r.kind]
                     /\ ret' = IF r.kind = "AbortError"
                               THEN VerifyCatch("AbortError", "This operation was aborted")
                               ELSE VerifyCatch("TypeError", "fetch failed")
                     /\ pc' = "v_ret"
                     /\ calls' = done
    /\ UNCHANGED <<koyebAccounts, totalAccounts, index, results, successCount, tg, exitCode>>

\* The verifier's await on the response body settles: the body has been
\* delivered, or a timer still armed has aborted the read.
VerifyBodySettles ==
    /\ UNCHANGED parseVars
    /\ pc \in {"v_errjson", "v_json"}
    /\ ~net.bodyStalls \/ timer = "armed"
    /\ LET email == trim(koyebAccounts[index + 1].email)
           aborted == AbortsPending(timer = "armed",
                                    IF net.bodyStalls THEN REQUEST_TIMEOUT
                                    ELSE net.hdrDelay + net.bodyDelay,
                                    REQUEST_TIMEOUT)
       IN  IF aborted
           THEN /\ ret' = VerifyCatch("AbortError", "This operation was aborted")
                /\ net' = net
           ELSE \E body \in IF pc = "v_errjson" THEN ErrorBodies ELSE ProfileBodies :
                  /\ net' = [net EXCEPT !.body = body]
                  /\ ret' = IF pc = "v_errjson" THEN ErrorBodyOutcome(net.status, body)
                            ELSE ProfileBodyOutcome(email, body)
    /\ pc' = "v_ret"
    /\ calls' = [calls EXCEPT !.settled = @ + 1]
    /\ UNCHANGED <<koyebAccounts, totalAccounts, index, results, successCount, timer, tg,
                   exitCode>>

\* Mutant: no try/catch around the verifier call.
AccountCatchHandles_Propagates == FALSE

\* Whether the try/catch around the verifier call handles what it throws.
AccountCatchHandles == TRUE

\* Mutant: an account whose verification failed is verified again.
LoopAdvance_RetryFailed(i, outcome) ==
    IF outcome.kind = "return" /\ ~outcome.success THEN i ELSE i + 1

\* The loop's index++: the next account, whatever the outcome was.
LoopAdvance(i, outcome) == i + 1

\* main resumes after the verifier call: the rest of the loop body.
RecordOutcome ==
    /\ UNCHANGED parseVars
    /\ pc = "v_ret"
    /\ LET email == trim(koyebAccounts[index + 1].email)
       IN  IF ret.kind = "return"
           THEN /\ results' = push(results, OutcomeLine(email, ret.success, ret.message))
                /\ successCount' = IF ret.success THEN successCount + 1 ELSE successCount
                /\ index' = LoopAdvance(index, ret)
                /\ pc' = "loop"
                /\ tg' = tg
           ELSE IF AccountCatchHandles
           THEN /\ results' = push(results, ExceptionLine(email, ret.message))
                /\ successCount' = successCount
                /\ index' = LoopAdvance(index, ret)
                /\ pc' = "loop"
                /\ tg' = tg
           ELSE /\ EnterCatch(ret.message)
                /\ UNCHANGED <<results, successCount, index>>
    /\ net' = NoNet
    /\ ret' = NoRet
    /\ timer' = "idle"
    /\ UNCHANGED <<koyebAccounts, totalAccounts, exitCode, calls>>

(* ------------------------------ notifier ------------------------------- *)

\* Mutant: the catch block rethrows.
TgCatch_Rethrows(errorName) == "throw"

\* The catch block of sendTgMessage: what the call gives its caller.
TgCatch(errorName) == "null"

\* sendTgMessage from its entry to its first await.  The two secrets are
\* read from the environment here: each is set or unset.
TgCall ==
    /\ UNCHANGED parseVars
    /\ pc = "tg_call"
    /\ \E botToken \in BOOLEAN, chatId \in BOOLEAN :
         IF ~botToken \/ ~chatId
         THEN /\ tg' = [tg EXCEPT !.how = "skipped", !.ret = "null"]
              /\ pc' = "tg_ret"
              /\ timer' = timer
              /\ calls' = [calls EXCEPT !.notify = @ + 1]
         ELSE /\ tg' = tg
              /\ pc' = "tg_fetch"
              /\ timer' = "armed"
              /\ calls' = [calls EXCEPT !.notify = @ + 1, !.tgFetch = @ + 1]
    /\ UNCHANGED <<koyebAccounts, totalAccounts, index, results, successCount, net, ret,
                   exitCode>>

\* The notifier's fetchWithTimeout settles.
TgFetchSettles ==
    /\ UNCHANGED parseVars
    /\ pc = "tg_fetch"
    /\ \E remote \in Remotes, delivery \in BodyDeliveries :
         LET r == fetchWithTimeout(remote, REQUEST_TIMEOUT)
         IN  /\ timer' = TimerAfterFetch
             /\ IF r.kind = "response"
                THEN /\ net' = [hdrDelay |-> remote.hdrDelay, kind |-> r.kind,
                                status |-> r.status, bodyDelay |-> delivery.bodyDelay,
                                bodyStalls |-> delivery.bodyStalls, body |-> NoBody]
                     /\ pc' = IF ~ResponseOk(r.status) THEN "tg_text" ELSE "tg_json"
                     /\ tg' = tg
                ELSE /\ delivery = [bodyDelay |-> FastDelay, bodyStalls |-> FALSE]
                     /\ net' = [NoNet EXCEPT !.hdrDelay = remote.hdrDelay, !.kind = r.kind]
                     /\ pc' = "tg_ret"
                     /\ tg' = [tg EXCEPT !.how = "failed", !.ret = TgCatch(r.kind)]
    /\ UNCHANGED <<koyebAccounts, totalAccounts, index, results, successCount, ret,
                   exitCode, calls>>

\* The notifier's await on the response body settles: response.text() of an
\* error answer, or response.json() of a 2xx answer (which may fail to parse).
TgBodySettles ==
    /\ UNCHANGED parseVars
    /\ pc \in {"tg_text", "tg_json"}
    /\ ~net.bodyStalls \/ timer = "armed"
    /\ LET aborted == AbortsPending(timer = "armed",
                                    IF net.bodyStalls THEN REQUEST_TIMEOUT
                                    ELSE net.hdrDelay + net.bodyDelay,
                                    REQUEST_TIMEOUT)
       IN  IF aborted
           THEN tg' = [tg EXCEPT !.how = "failed", !.ret = TgCatch("AbortError")]
           ELSE IF pc = "tg_text"
           THEN tg' = [tg EXCEPT !.how = "failed", !.ret = "null"]
           ELSE \E parses \in BOOLEAN :
                  tg' = IF parses THEN [tg EXCEPT !.how = "delivered", !.ret = "json"]
                        ELSE [tg EXCEPT !.how = "failed", !.ret = TgCatch("SyntaxError")]
    /\ pc' = "tg_ret"
    /\ UNCHANGED <<koyebAccounts, totalAccounts, index, results, successCount, timer, net,
                   ret, exitCode, calls>>

(* ----------------------------- termination ----------------------------- *)

\* Mutant: any failed account makes the exit status non-zero.
ExitStatus_AnyFailure(success, total) == IF success < total THEN 1 ELSE 0

\* The status the process ends with after the report has been sent.
ExitStatus(success, total) == IF success = 0 /\ total > 0 THEN 1 ELSE 0

\* The status main's outer catch block exits with.
InitFailExit == 1

\* main resumes after sendTgMessage: the exit decision after the report, or
\* process.exit in the outer catch block.
AfterNotify ==
    /\ UNCHANGED parseVars
    /\ pc = "tg_ret"
    /\ IF tg.caller = "report"
       THEN IF tg.ret = "throw"
            THEN /\ EnterCatch(<<"notification failed">>)
                 /\ exitCode' = exitCode
            ELSE /\ exitCode' = <<ExitStatus(successCount, totalAccounts)>>
                 /\ pc' = "done"
                 /\ tg' = tg
       ELSE /\ exitCode' = <<InitFailExit>>
            /\ pc' = "aborted"
            /\ tg' = tg
    /\ net' = NoNet
    /\ timer' = "idle"
    /\ UNCHANGED <<koyebAccounts, totalAccounts, index, results, successCount, ret, calls>>

\* The verifier raises instead of returning an outcome.
VerifyRaises ==
    /\ UNCHANGED parseVars
    /\ pc \in {"v_fetch", "v_errjson", "v_json"}
    /\ ret' = Thrown(<<"unexpected failure">>)
    /\ pc' = "v_ret"
    /\ calls' = [calls EXCEPT !.settled = @ + 1]
    /\ UNCHANGED <<koyebAccounts, totalAccounts, index, results, successCount, timer, net,
                   tg, exitCode>>

Next ==
    \/ Load
    \/ LoopHead
    \/ SleepDone
    \/ VerifyFetchSettles
    \/ VerifyBodySettles
    \/ RecordOutcome
    \/ TgCall
    \/ TgFetchSettles
    \/ TgBodySettles
    \/ AfterNotify

Spec == Init /\ [][Next]_vars

\* Timers fire and every settled await is resumed.
FairSpec == Spec /\ WF_vars(Next)

NextThrow == Next \/ VerifyRaises

\* main against a verifier that may also raise.
SpecThrow == Init /\ [][NextThrow]_vars

(* ----------------------- the loader on its own ------------------------- *)

\* Characters of the texts given to the loader alone.
ParseChars == {"a", ":", " ", "\n"}

\* Values of process.env.KOYEB_LOGIN: unset, or any text of up to MaxTextLen
\* characters.
ParseInputs ==
    {<<>>} \cup {<<t>> : t \in UNION {[1..n -> ParseChars] : n \in 0..MaxTextLen}}

ParseInit ==
    /\ RunInit
    /\ parseInput \in ParseInputs
    /\ parseOutput = <<>>

\* One call of validateAndLoadAccounts.
ParseApply ==
    /\ parseOutput = <<>>
    /\ parseOutput' = <<validateAndLoadAccounts(parseInput)>>
    /\ UNCHANGED <<pc, koyebAccounts, totalAccounts, index, results, successCount,
                   timer, net, ret, tg, exitCode, calls, parseInput>>

ParseNext == ParseApply

SpecParse == ParseInit /\ [][ParseNext]_vars

Terminated == pc \in {"done", "aborted"}

(* ------------------------------- claims -------------------------------- *)

\* The run has loaded its accounts and gone through the whole loop.
LoopCompleted == totalAccounts > 0 /\ index = totalAccounts

\* C1: a run that loaded at least one account and reached the end of the
\* loop exits non-zero exactly when successCount is 0; with at least one
\* success it exits zero whatever the other accounts' outcomes.
C1_ExitStatusIffNoSuccess ==
    (exitCode # <<>> /\ LoopCompleted) =>
        /\ (exitCode[1] # 0) <=> (successCount = 0)
        /\ successCount >= 1 => exitCode[1] = 0

\* A finished run with one success and one failure, exit status 0.
C1_Witness ==
    /\ pc = "done"
    /\ totalAccounts = 2
    /\ successCount = 1
    /\ exitCode = <<0>>

NotifyPhase == {"tg_call", "tg_fetch", "tg_text", "tg_json", "tg_ret"}

\* C2 (state part): the report is only built once every account has a line,
\* a run that loaded accounts never enters the initialization-failure path,
\* lines are recorded one per processed account and successes never exceed
\* them.
C2_LoopState ==
    /\ tg.caller = "report" => index = totalAccounts /\ Len(results) = totalAccounts
    /\ totalAccounts > 0 => tg.caller # "initfail" /\ pc # "aborted"
    /\ pc \in {"loop", "sleeping", "v_fetch", "v_errjson", "v_json", "v_ret"} =>
          Len(results) = index /\ index <= totalAccounts /\ successCount <= index

\* C2 (step part): when the verifier has failed or raised for account i, main
\* records one failure line for that account, leaves successCount alone and
\* goes on with the loop.
C2_LoopStep ==
    (pc = "v_ret" /\ ~(ret.kind = "return" /\ ret.success)) =>
        /\ pc' = "loop"
        /\ index' = index + 1
        /\ successCount' = successCount
        /\ Len(results') = Len(results) + 1
        /\ SubSeq(results', 1, Len(results)) = results
        /\ LET line == results'[Len(results')]
               email == trim(koyebAccounts[index + 1].email)
           IN  /\ SubSeq(line, 1, Len(email) + 2) = AccountHeader(email)
               /\ line[Len(email) + 3] = MARK_FAIL
               /\ ret.kind = "throw" =>
                    SubSeq(line, Len(line) - Len(ret.message), Len(line) - 1) = ret.message

\* C2: the verification loop never ends early, whatever each account's
\* verification returns or raises, and an exception becomes a failure line.
C2_LoopNeverEndsEarly == []C2_LoopState /\ [][C2_LoopStep]_vars

\* The first of two accounts raised, the second was still verified (and
\* succeeded), and the run finished with two lines.
C2_Witness ==
    /\ pc = "done"
    /\ totalAccounts = 2
    /\ Len(results) = 2
    /\ results[1] = ExceptionLine(trim(koyebAccounts[1].email), <<"unexpected failure">>)
    /\ successCount = 1

\* Equality of two emails up to the case of their letters.
SameIgnoringCase(x, y) ==
    /\ Len(x) = Len(y)
    /\ \A i \in 1..Len(x) :
         \/ x[i] = y[i]
         \/ <<x[i], y[i]>> \in {<<"a", "A">>, <<"A", "a">>, <<"b", "B">>, <<"B", "b">>}

\* The verifier has returned for a 2xx response whose body is a JSON object.
ProfileAnswered ==
    /\ pc = "v_ret"
    /\ net.kind = "response"
    /\ net.status >= 200 /\ net.status <= 299
    /\ net.body.kind = "object"

\* C3: on a 2xx profile response the outcome is success exactly when the
\* returned email matches case-insensitively, the flags contain ACTIVE and
\* email_validated is true; otherwise the reason is mismatch first, then
\* inactive, then email not validated; absent fields count as '', [], false.
C3_ProfileClassification ==
    ProfileAnswered =>
        LET user == IF net.body.user = <<>> THEN EmptyUserInfo ELSE net.body.user[1]
            returned == IF user.email = <<>> THEN <<>> ELSE user.email[1]
            flags == IF user.flags = <<>> THEN <<>> ELSE user.flags[1]
            validated == user.email_validated = <<TRUE>>
            requested == trim(koyebAccounts[index + 1].email)
            match == SameIgnoringCase(returned, requested)
            active == "ACTIVE" \in {flags[i] : i \in 1..Len(flags)}
        IN  /\ ret.kind = "return"
            /\ ret.success <=> (match /\ active /\ validated)
            /\ ret.success => ret.message = MSG_ACTIVE
            /\ ~match => ret.message = MSG_MISMATCH(returned)
            /\ (match /\ ~active) => ret.message = MSG_INACTIVE(flags)
            /\ (match /\ active /\ ~validated) => ret.message = MSG_EMAIL_NOT_VALIDATED

\* An active, validated profile of another identity is reported as mismatch.
C3_Witness ==
    /\ ProfileAnswered
    /\ net.body.user # <<>>
    /\ net.body.user[1].flags = <<(<<"ACTIVE">>)>>
    /\ net.body.user[1].email_validated = <<TRUE>>
    /\ net.body.user[1].email = <<(<<"b">>)>>
    /\ ret = Returned(FALSE, MSG_MISMATCH(<<"b">>))

\* The verifier has returned for a non-2xx response other than 401 and 403.
ErrorAnswered ==
    /\ pc = "v_ret"
    /\ net.kind = "response"
    /\ ~(net.status >= 200 /\ net.status <= 299)
    /\ net.status \notin {401, 403}

\* C4: every non-2xx response other than 401/403 yields the failure reason
\* "API error (status <code>): <message>", also when the body is not JSON.
C4_ApiErrorReason ==
    ErrorAnswered =>
        /\ ret.kind = "return"
        /\ ~ret.success
        /\ Len(ret.message) = 4
        /\ ret.message[1] = "reason: API error (status "
        /\ ret.message[2] = ToString(net.status)
        /\ ret.message[3] = "): "

\* C5: a 401 or 403 response always yields "PAT invalid or expired", decided
\* before the generic non-2xx branch and before any body is read.
C5_AuthFailureFirst ==
    /\ (pc = "v_ret" /\ net.kind = "response" /\ net.status \in {401, 403}) =>
          ret = Returned(FALSE, MSG_PAT_INVALID) /\ net.body = NoBody
    /\ pc \in {"v_errjson", "v_json"} => net.status \notin {401, 403}

\* A 403 whose body would never be delivered is still classified at once.
C5_Witness ==
    /\ pc = "v_ret"
    /\ net.kind = "response"
    /\ net.status = 403
    /\ net.bodyStalls
    /\ ret = Returned(FALSE, MSG_PAT_INVALID)

\* The response the verifier waited for took longer than the request timeout,
\* before the headers or while the body it read was delivered.
DelayedBeyondTimeout ==
    \/ net.hdrDelay > REQUEST_TIMEOUT
    \/ /\ net.kind = "response"
       /\ net.body # NoBody
       /\ net.hdrDelay + net.bodyDelay > REQUEST_TIMEOUT

\* C6: a response delayed beyond the request timeout, before the headers or
\* during the body, makes the verifier return the timeout failure; it does
\* not stay suspended.
C6_TimeoutOnDelay ==
    /\ (pc = "v_ret" /\ DelayedBeyondTimeout) => ret = Returned(FALSE, MSG_TIMEOUT)
    /\ pc \in {"v_fetch", "v_errjson", "v_json"} => ENABLED Next

\* C7: every run eventually terminates in Done or AbortedInit.
C7_Terminates == <>Terminated

\* Loading has been attempted and gave no account.
LoadFailed == pc # "start" /\ totalAccounts = 0

\* C8: when loading fails the run notifies the error text once and exits
\* non-zero, with no throttle wait and no verification request.
C8_AbortedInit ==
    LoadFailed =>
        /\ tg.caller = "initfail"
        /\ tg.text \in {<<INIT_FAILED>> \o ERR_NOT_CONFIGURED,
                        <<INIT_FAILED>> \o ERR_NO_VALID_ACCOUNT}
        /\ pc \in NotifyPhase \cup {"aborted"}
        /\ calls.notify = IF pc = "tg_call" THEN 0 ELSE 1
        /\ calls.sleep = 0 /\ calls.verify = 0 /\ calls.fetch = 0
        /\ exitCode # <<>> <=> pc = "aborted"
        /\ pc = "aborted" => exitCode[1] # 0

\* A run aborted at initialization after one notification attempt.
C8_Witness ==
    /\ pc = "aborted"
    /\ totalAccounts = 0
    /\ calls.notify = 1
    /\ exitCode = <<1>>
    /\ tg.text = <<INIT_FAILED>> \o ERR_NO_VALID_ACCOUNT

\* C9: sendTgMessage never throws (skipped without a request when a secret is
\* missing, null on HTTP error, timeout or network error), and the exit status
\* of a run that loaded accounts depends on the verification results only.
C9_NotifierNeverDecides ==
    /\ tg.ret # "throw"
    /\ pc \in {"tg_ret", "done", "aborted"} =>
          /\ tg.how = "skipped" => tg.ret = "null" /\ calls.tgFetch = 0
          /\ tg.how = "failed" => tg.ret = "null" /\ calls.tgFetch = 1
          /\ tg.how = "delivered" => tg.ret = "json" /\ calls.tgFetch = 1
          /\ tg.how \in {"skipped", "failed", "delivered"}
    /\ (Terminated /\ totalAccounts > 0) =>
          /\ pc = "done"
          /\ calls.notify = 1
          /\ exitCode = IF successCount = 0 THEN <<1>> ELSE <<0>>

\* A run with a success whose notification failed still exits 0.
C9_Witness ==
    /\ pc = "done"
    /\ tg.how = "failed"
    /\ successCount > 0
    /\ exitCode = <<0>>

\* C10: the throttle wait for account i ends before its verification request
\* is issued, the verification of account i has returned before the wait for
\* account i+1 begins, and at most one verification request is in flight.
C10_SerialThrottled ==
    /\ calls.fetch - calls.settled \in {0, 1}
    /\ calls.fetch <= calls.sleepDone
    /\ pc \in {"v_fetch", "v_errjson", "v_json"} =>
          /\ calls.sleepDone = index + 1
          /\ calls.fetch = index + 1
          /\ calls.settled = index
    /\ pc = "sleeping" =>
          /\ calls.sleep = index + 1
          /\ calls.sleepDone = index
          /\ calls.fetch = index
          /\ calls.settled = index
          /\ Len(results) = index

\* The second account's request is in flight after two waits and one verdict.
C10_Witness ==
    /\ pc = "v_fetch"
    /\ index = 1
    /\ calls.sleepDone = 2
    /\ calls.fetch = 2
    /\ calls.settled = 1

VerifyPhase == {"v_fetch", "v_errjson", "v_json", "v_ret"}

\* C11: no retries; each loaded account causes at most one request to the
\* profile endpoint, whatever that request's outcome: the requests issued
\* never exceed the accounts reached, one verifier call makes one request,
\* and a step that issues a request is the first for its account.
C11_NoRetryState ==
    /\ calls.fetch <= index + (IF pc \in VerifyPhase THEN 1 ELSE 0)
    /\ calls.fetch <= totalAccounts
    /\ calls.verify = calls.fetch

C11_NoRetryStep ==
    /\ calls'.fetch \in {calls.fetch, calls.fetch + 1}
    /\ calls'.fetch = calls.fetch + 1 => calls.fetch = index /\ index' = index
    /\ pc \in VerifyPhase /\ pc' \notin VerifyPhase => index' = index + 1 \/ pc' = "tg_call"

C11_NoRetries == []C11_NoRetryState /\ [][C11_NoRetryStep]_vars

\* Two accounts both timed out, and exactly two requests were made.
C11_Witness ==
    /\ pc = "done"
    /\ totalAccounts = 2
    /\ calls.fetch = 2
    /\ results[1] = OutcomeLine(trim(koyebAccounts[1].email), FALSE, MSG_TIMEOUT)
    /\ results[2] = OutcomeLine(trim(koyebAccounts[2].email), FALSE, MSG_TIMEOUT)

\* The fragments of the report text before the per-account lines.
ReportHeaderLen == Len(render(currentTime, 0, 0, <<>>))

RECURSIVE Concat(_)
Concat(lines) == IF lines = <<>> THEN <<>> ELSE Head(lines) \o Concat(Tail(lines))

\* Position of the success/failure marker in the line of the account `email`.
MarkerAt(email) == Len(email) + 3

\* C12 (state part): the i-th recorded line names the i-th loaded account and
\* carries one of the two markers, and the report text lists the recorded
\* lines in the order recorded.
C12_OrderState ==
    /\ \A i \in 1..Len(results) :
         LET email == trim(koyebAccounts[i].email)
         IN  /\ Len(results[i]) > MarkerAt(email)
             /\ SubSeq(results[i], 1, Len(email) + 2) = <<"account: [">> \o email \o <<"]\n">>
             /\ results[i][MarkerAt(email)] \in {MARK_OK, MARK_FAIL}
    /\ tg.caller = "report" =>
         /\ Len(results) = totalAccounts
         /\ SubSeq(tg.text, ReportHeaderLen + 1, Len(tg.text)) = Concat(results)

\* C12 (step part): a step leaves the recorded lines alone or adds one line
\* after them; the line added for a verified account carries the success
\* marker exactly when the outcome was success, followed by the outcome's text.
C12_AppendStep ==
    \/ results' = results
    \/ /\ Len(results') = Len(results) + 1
       /\ SubSeq(results', 1, Len(results)) = results
       /\ pc = "v_ret" =>
            LET email == trim(koyebAccounts[index + 1].email)
                line == results'[Len(results')]
            IN  /\ (line[MarkerAt(email)] = MARK_OK) <=> ret.success
                /\ (line[MarkerAt(email)] = MARK_FAIL) <=> ~ret.success
                /\ SubSeq(line, MarkerAt(email) + 1, Len(line) - 1) = ret.message

\* C12: the report accumulator is append-only and keeps the input order.
C12_AppendOnlyInOrder == []C12_OrderState /\ [][C12_AppendStep]_vars

\* A failure recorded first stays before the success recorded second.
C12_Witness ==
    /\ pc = "done"
    /\ totalAccounts = 2
    /\ koyebAccounts[1].email # koyebAccounts[2].email
    /\ results[1][MarkerAt(trim(koyebAccounts[1].email))] = MARK_FAIL
    /\ results[2][MarkerAt(trim(koyebAccounts[2].email))] = MARK_OK

\* The text the loader was given, '' when the variable is unset.
GivenText == IF parseInput = <<>> THEN <<>> ELSE parseInput[1]

\* The result of the loader's call.
LoadResult == parseOutput[1]

\* The lines of a text: the pieces between its newline characters.
LinesOf(text) ==
    LET nl == {i \in 1..Len(text) : text[i] = "\n"}
        n == Cardinality(nl)
        pos(k) == CHOOSE i \in nl : Cardinality({j \in nl : j < i}) = k - 1
        first(k) == IF k = 1 THEN 1 ELSE pos(k - 1) + 1
        last(k) == IF k = n + 1 THEN Len(text) ELSE pos(k) - 1
    IN  [k \in 1..(n + 1) |-> SubSeq(text, first(k), last(k))]

\* A text without its leading and trailing blanks.
Strip(str) ==
    LET solid == {i \in 1..Len(str) : str[i] \notin {" ", "\n", "\t"}}
        lo == CHOOSE i \in solid : \A j \in solid : i <= j
        hi == CHOOSE i \in solid : \A j \in solid : i >= j
    IN  IF solid = {} THEN <<>> ELSE SubSeq(str, lo, hi)

FirstColon(line) == CHOOSE k \in 1..Len(line) : line[k] = ":" /\ \A j \in 1..(k - 1) : line[j] # ":"

BeforeColon(line) == Strip(SubSeq(line, 1, FirstColon(line) - 1))

AfterColon(line) == Strip(SubSeq(line, FirstColon(line) + 1, Len(line)))

\* A line with a colon whose parts before and after the first colon are not blank.
ValidLine(line) ==
    /\ \E k \in 1..Len(line) : line[k] = ":"
    /\ BeforeColon(line) # <<>>
    /\ AfterColon(line) # <<>>

ValidLines(text) == SelectSeq(LinesOf(text), ValidLine)

\* C13: a text with N >= 1 valid lines among any malformed ones loads, without
\* raising, exactly N accounts in input order, each with the text before the
\* first colon as identity and everything after it as secret.
C13_LoadsValidLinesInOrder ==
    (parseOutput # <<>> /\ Len(ValidLines(GivenText)) >= 1) =>
        LET valid == ValidLines(GivenText)
        IN  /\ ~LoadResult.threw
            /\ Len(LoadResult.accounts) = Len(valid)
            /\ \A i \in 1..Len(valid) :
                 /\ LoadResult.accounts[i].email = BeforeColon(valid[i])
                 /\ LoadResult.accounts[i].pat = AfterColon(valid[i])

\* Two valid lines, the second with a colon in its secret, loaded in order.
C13_Witness ==
    /\ parseInput = << <<"a", ":", "a", "\n", "a", ":", ":">> >>
    /\ parseOutput # <<>>
    /\ ~LoadResult.threw
    /\ LoadResult.accounts = <<[email |-> <<"a">>, pat |-> <<"a">>],
                               [email |-> <<"a">>, pat |-> <<":">>]>>

\* C14: the loader fails with a configuration error when the text is absent,
\* empty, blank or made of malformed lines only, and never returns an empty
\* account list.
C14_FailsWithoutValidAccount ==
    parseOutput # <<>> =>
        /\ ~LoadResult.threw => Len(LoadResult.accounts) >= 1
        /\ (parseInput = <<>> \/ Strip(GivenText) = <<>> \/ ValidLines(GivenText) = <<>>) =>
              /\ LoadResult.threw
              /\ LoadResult.accounts = <<>>
              /\ LoadResult.error \in {ERR_NOT_CONFIGURED, ERR_NO_VALID_ACCOUNT}

\* A text of malformed lines only (no colon; empty secret) is refused.
C14_Witness ==
    /\ parseInput = << <<"a", "\n", "a", ":", " ">> >>
    /\ parseOutput # <<>>
    /\ LoadResult.threw
    /\ LoadResult.error = ERR_NO_VALID_ACCOUNT

\* C15 (state part): once the report has been rendered, rendering again from
\* the accumulated lines, total, successCount and timestamp gives the text
\* that was rendered.
C15_RenderState ==
    tg.caller = "report" =>
        tg.text = render(currentTime, totalAccounts, successCount, results)

\* C15 (step part): the step that renders the report leaves the recorded
\* lines and the counters as they were.
C15_RenderStep ==
    (pc = "loop" /\ pc' = "tg_call") =>
        /\ results' = results
        /\ successCount' = successCount
        /\ totalAccounts' = totalAccounts
        /\ index' = index

\* C15: rendering is a pure function of the accumulated state.
C15_RenderIsPure == []C15_RenderState /\ [][C15_RenderStep]_vars

\* A report of two lines has been rendered and sent, and the lines are intact.
C15_Witness ==
    /\ pc = "done"
    /\ tg.caller = "report"
    /\ Len(results) = 2
    /\ tg.text = render(currentTime, 2, successCount, results)

\* Recorded lines carrying a given marker.
LinesWith(marks) ==
    Cardinality({i \in 1..Len(results) :
                   \E k \in 1..Len(results[i]) : results[i][k] \in marks})

\* The fragment of the report text that follows the fragment `label`.
SummaryField(label) ==
    tg.text[(CHOOSE k \in 1..Len(tg.text) : tg.text[k] = label) + 1]

\* C16: 0 <= successCount <= lines recorded <= total, successCount is the
\* number of lines with the success marker, and the failure count of the
\* rendered summary is the number of lines with a failure marker.
C16_CounterConsistency ==
    /\ 0 <= successCount
    /\ successCount <= Len(results)
    /\ Len(results) <= totalAccounts
    /\ successCount = LinesWith({MARK_OK})
    /\ tg.caller = "report" =>
         /\ SummaryField(" | failed: ") = ToString(LinesWith({MARK_FAIL, MARK_INCOMPLETE}))
         /\ SummaryField("succeeded: ") = ToString(LinesWith({MARK_OK}))
         /\ SummaryField("total: ") = ToString(Len(results))

\* A rendered report of one success and one failure.
C16_Witness ==
    /\ tg.caller = "report"
    /\ totalAccounts = 2
    /\ successCount = 1
    /\ SummaryField(" | failed: ") = "1"
    /\ LinesWith({MARK_FAIL}) = 1

\* C17: every loaded account has a non-empty identity and secret, the
\* "incomplete" branch of the loop is never taken, and waits, verifier calls
\* and report lines all number the loaded accounts.
C17_LoadedAccountsComplete ==
    /\ \A i \in 1..Len(koyebAccounts) :
         Strip(koyebAccounts[i].email) # <<>> /\ koyebAccounts[i].pat # <<>>
    /\ LinesWith({MARK_INCOMPLETE}) = 0
    /\ pc = "loop" =>
         calls.sleep = index /\ calls.verify = index /\ Len(results) = index
    /\ tg.caller = "report" =>
         /\ calls.sleep = totalAccounts
         /\ calls.sleepDone = totalAccounts
         /\ calls.verify = totalAccounts
         /\ Len(results) = totalAccounts
         /\ Len(koyebAccounts) = totalAccounts

\* A finished run over two accounts: two waits, two verifier calls, two lines.
C17_Witness ==
    /\ pc = "done"
    /\ totalAccounts = 2
    /\ calls.sleep = 2
    /\ calls.verify = 2
    /\ Len(results) = 2

\* C18 (state part): at most one notification attempt, exactly one in a
\* terminated run; the initialization-failure message only when nothing was
\* verified, the report only after all accounts; nothing is verified once the
\* attempt has been made.
C18_OneNotificationState ==
    /\ calls.notify <= 1
    /\ Terminated => calls.notify = 1
    /\ tg.caller = "initfail" =>
         /\ calls.verify = 0 /\ calls.fetch = 0 /\ calls.sleep = 0
         /\ tg.text[1] = INIT_FAILED
    /\ tg.caller = "report" =>
         /\ totalAccounts > 0 /\ index = totalAccounts
         /\ calls.fetch = totalAccounts /\ calls.settled = totalAccounts
         /\ tg.text[1] # INIT_FAILED
    /\ calls.notify = 1 => pc \in {"tg_fetch", "tg_text", "tg_json", "tg_ret", "done", "aborted"}

\* C18 (step part): once a message has been chosen it is never replaced by
\* the other kind, and no verification request follows it.
C18_OneNotificationStep ==
    tg.caller # "none" =>
        /\ tg'.caller = tg.caller
        /\ tg'.text = tg.text
        /\ calls'.fetch = calls.fetch
        /\ calls'.verify = calls.verify

\* C18: every terminating run makes exactly one notification attempt, of one
\* kind only, after which nothing is verified.
C18_OneNotification == []C18_OneNotificationState /\ [][C18_OneNotificationStep]_vars

\* A finished run over two accounts that sent the report, once.
C18_Witness ==
    /\ pc = "done"
    /\ tg.caller = "report"
    /\ calls.notify = 1
    /\ calls.fetch = 2

\* C19: the verifier never throws: a rejected fetch, an abort, a body that
\* fails to parse (2xx or not) and a null body all end in a returned outcome,
\* with success only for an active, validated profile; main's per-account
\* catch block is never entered.
C19_VerifierNeverThrows ==
    /\ ret.kind # "throw"
    /\ pc = "v_ret" =>
         /\ ret.kind = "return"
         /\ ret.message # <<>>
         /\ net.kind = "neterror" => ~ret.success /\ ret.message[1] = MSG_NETWORK("")[1]
         /\ net.kind = "AbortError" => ret = Returned(FALSE, MSG_TIMEOUT)
         /\ net.body.kind \in {"nonjson", "null"} =>
              ~ret.success /\ ret.message[1] = MSG_NETWORK("")[1]
         /\ ret.success =>
              /\ ret.message = MSG_ACTIVE
              /\ net.kind = "response" /\ net.status = 200
              /\ net.body.kind = "object" /\ net.body.user # <<>>
              /\ net.body.user[1].flags = <<(<<"ACTIVE">>)>>
              /\ net.body.user[1].email_validated = <<TRUE>>
    /\ \A i \in 1..Len(results) :
         \A k \in 1..Len(results[i]) : results[i][k] # "unknown exception during execution - "

\* A 2xx answer whose body is JSON null ends in a returned failure.
C19_Witness ==
    /\ pc = "v_ret"
    /\ net.status = 200
    /\ net.body.kind = "null"
    /\ ret.kind = "return"
    /\ ~ret.success

====
